---- MODULE Spec2Model ----
(***************************************************************************)
(* Model of the mailbox mirror of pydatamail_google / pygmailfilter:       *)
(*   - the Local Store (pygmailfilter/database.py, DatabaseInterface),     *)
(*   - the reconciliation run (GoogleMailBase.update_database),            *)
(*   - the paginated remote listing (GoogleMailBase._get_messages),        *)
(*   - the rule matcher (GoogleMailBase._filter_message_by_sender).        *)
(* The remote mailbox is the environment: a map from message id to the     *)
(* message's labelIds list, or Absent when the message does not exist.     *)
(***************************************************************************)
EXTENDS Integers, Sequences, FiniteSets, TLC

VARIABLES
    remote,                     \* remote mailbox: id -> labelIds list | Absent
    email_content,              \* table email_content: rows [email_id, email_deleted]
    labels,                     \* table labels: rows [email_id, label_id]
    threads,                    \* table threads: rows [email_id, thread_id]
    email_from,                 \* table email_from: rows [email_id]
    email_to,                   \* table email_to: rows [email_id]
    new_messages_lst,           \* update_database: first output of get_labels_to_update
    message_label_updates_lst,  \* update_database: second output
    deleted_messages_lst,       \* update_database: third output
    label_deltas,               \* update_labels: [message_id, labels_to_add, labels_to_remove] per item written
    fetched_metadata,           \* ids whose labels the last run fetched (get_labels_for_email returned)
    fetched_full,               \* ids the last run downloaded in full (get_email_dict returned)
    status,                     \* "idle" | "done" | "error": how the last update_database ended
    quick,                      \* the quick argument of the last update_database
    failed,                     \* set of ids whose detail fetch raised in the last run
    remote_changed,             \* the remote mailbox changed since the last run
    second,                     \* the last run directly followed a completed full run, remote unchanged
    runs,                       \* number of update_database runs so far
    changes,                    \* number of remote changes so far
    filter_dict_lst,            \* matcher input: ordered rule list
    message,                    \* matcher input: payload.headers of the message detail
    label_add,                  \* matcher outcome: a label id, "(None)", "(KeyError)" or "(TypeError)"
    mail_headers,               \* remote mailbox: id -> payload.headers of the message
    call,                       \* the label operation called: its name and arguments
    requests,                   \* users().messages().modify requests the operation issued, in order
    raised,                     \* the exception the operation ended with, "(none)" when it returned
    session_new,                \* label rows added to the database session and not committed
    email,                      \* get_email_address input: the raw header value
    address,                    \* get_email_address outputs, each applied to the one before
    detail,                     \* Message.to_dict input: the fetched message
    item,                       \* Message.to_dict outcome: the item record or the exception
    paging,                     \* one _get_messages call: implementation, token, items, requests
    answers                     \* the three _filter_message_by_sender implementations on one input

syncvars == <<remote, email_content, labels, threads, email_from, email_to,
              new_messages_lst, message_label_updates_lst, deleted_messages_lst,
              label_deltas, fetched_metadata, fetched_full, status, quick, failed,
              remote_changed, second,
              runs, changes>>
filtervars == <<filter_dict_lst, message, label_add>>
drivervars == <<mail_headers, call, requests, raised>>
auxvars == <<email, address, detail, item, paging, answers>>
vars == <<syncvars, filtervars, drivervars, session_new, auxvars>>

----------------------------------------------------------------------------
(* Bounds *)
MaxRuns == 3
MaxChanges == 1
PageSize == 2
MaxRules == 2

(* Universe *)
Ids == {1, 2, 3, 4}             \* message ids
ChurnIds == {1, 2}              \* the messages that come, go and are relabelled
MirrorIds == {1, 2, 3}          \* the messages the remote side may hold in SpecMirror
ListOrder == <<1, 2, 3, 4>>     \* the remote side lists by ascending id
Labels == {"INBOX", "SPAM"}
Absent == <<"(absent)">>         \* no such message; differs from every labelIds list
LabelLists == {<<>>, <<"INBOX">>, <<"INBOX", "SPAM">>, <<"SPAM", "INBOX">>}
RemoteVals == LabelLists \cup {Absent}

----------------------------------------------------------------------------
None == <<"(None)">>            \* Python's None where a string or list is expected

(* Generic list helpers (Python list semantics) *)
Range(s) == {s[i] : i \in DOMAIN s}

RECURSIVE SetToSeqBy(_, _)
\* list(a_set): the elements of S in the iteration order given by the list order
SetToSeqBy(S, order) ==
    IF order = <<>> THEN <<>>
    ELSE IF Head(order) \in S
         THEN <<Head(order)>> \o SetToSeqBy(S, Tail(order))
         ELSE SetToSeqBy(S, Tail(order))

Perms(S) == {p \in [1..Cardinality(S) -> S] : Range(p) = S}

----------------------------------------------------------------------------
(* Remote Directory: users().messages().list / get *)

\* The message stubs the remote side lists: every existing message, once.
RemoteListing(mailbox) ==
    LET stub(i) == [id |-> i, threadId |-> i]
        all == [k \in DOMAIN ListOrder |-> stub(ListOrder[k])]
    IN SelectSeq(all, LAMBDA d : mailbox[d.id] # Absent)

\* One page of the listing: pageToken is <<>> (None) or <<start index>>.
ListResponse(listing, pageToken) ==
    LET start == IF pageToken = <<>> THEN 1 ELSE pageToken[1]
        last == IF start + PageSize - 1 < Len(listing)
                THEN start + PageSize - 1 ELSE Len(listing)
    IN [has_messages |-> Len(listing) > 0,
        messages |-> SubSeq(listing, start, last),
        nextPageToken |-> IF last < Len(listing) THEN <<last + 1>> ELSE <<>>]

_get_messages_page(listing, next_page_token) ==
    ListResponse(listing, next_page_token)

\* Variant: the loop never asks for a further page.
DrainPages_first_page_only(listing, message_items_lst, next_page_token) ==
    message_items_lst

RECURSIVE DrainPages(_, _, _)
\* the while loop of _get_messages
DrainPages(listing, message_items_lst, next_page_token) ==
    IF next_page_token # <<>>
    THEN LET page == _get_messages_page(listing, next_page_token)
         IN DrainPages(listing, message_items_lst \o page.messages, page.nextPageToken)
    ELSE message_items_lst

\* Variant: the items of the first page are lost when a second page exists.
_get_messages_drop_first(listing) ==
    LET first == _get_messages_page(listing, <<>>)
    IN IF ~first.has_messages /\ first.nextPageToken = <<>>
       THEN <<>>
       ELSE IF first.nextPageToken = <<>> THEN first.messages
       ELSE DrainPages(listing, <<>>, first.nextPageToken)

_get_messages(listing) ==
    LET first == _get_messages_page(listing, <<>>)
    IN IF ~first.has_messages /\ first.nextPageToken = <<>>
       THEN <<>>
       ELSE DrainPages(listing, first.messages, first.nextPageToken)

_get_message_ids(message_lst) == [k \in DOMAIN message_lst |-> message_lst[k].id]

\* search_email(only_message_ids=True) with no label scope
search_email(listing) == _get_message_ids(_get_messages(listing))

\* get_labels_for_email: the labelIds of the metadata detail
get_labels_for_email(mailbox, message_id) == mailbox[message_id]

get_labels_for_emails(mailbox, message_id_lst) ==
    [k \in DOMAIN message_id_lst |-> get_labels_for_email(mailbox, message_id_lst[k])]

\* get_email_dict: the record of one downloaded message
get_email_dict(mailbox, message_id) ==
    [id |-> message_id, thread_id |-> message_id, label_ids |-> mailbox[message_id]]

download_messages_to_dataframe(mailbox, message_id_lst) ==
    [k \in DOMAIN message_id_lst |-> get_email_dict(mailbox, message_id_lst[k])]

----------------------------------------------------------------------------
(* Local Store: DatabaseInterface *)

list_email_ids(content) == [k \in DOMAIN content |-> content[k].email_id]

\* Variant: every listed id is put on the label-update list.
get_labels_to_update_all_listed(content, message_id_lst) ==
    LET email_in_db_id == list_email_ids(content)
    IN [new_messages_lst |->
            SelectSeq(message_id_lst, LAMBDA m : m \notin Range(email_in_db_id)),
        deleted_messages_lst |->
            SelectSeq(email_in_db_id, LAMBDA m : m \notin Range(message_id_lst)),
        message_label_updates_lst |-> message_id_lst]

get_labels_to_update(content, message_id_lst) ==
    LET email_in_db_id == list_email_ids(content)
    IN [new_messages_lst |->
            SelectSeq(message_id_lst, LAMBDA m : m \notin Range(email_in_db_id)),
        deleted_messages_lst |->
            SelectSeq(email_in_db_id, LAMBDA m : m \notin Range(message_id_lst)),
        message_label_updates_lst |->
            SelectSeq(message_id_lst, LAMBDA m : m \in Range(email_in_db_id))]

\* Variant: the rows are removed instead of flagged.
mark_emails_as_deleted_purge(content, message_id_lst) ==
    SelectSeq(content, LAMBDA r : r.email_id \notin Range(message_id_lst))

mark_emails_as_deleted(content, message_id_lst) ==
    [k \in DOMAIN content |->
        IF content[k].email_id \in Range(message_id_lst)
        THEN [content[k] EXCEPT !.email_deleted = TRUE]
        ELSE content[k]]

\* the label_id list the query on Labels returns for one email
StoredLabels(tbl, message_id) ==
    LET rows == SelectSeq(tbl, LAMBDA r : r.email_id = message_id)
    IN [k \in DOMAIN rows |-> rows[k].label_id]

\* Variant: labels the remote side dropped are never removed.
UpdateLabelsOf_add_only(tbl, message_id, message_labels, hash_order) ==
    LET message_label_stored == StoredLabels(tbl, message_id)
        labels_to_add ==
            SetToSeqBy(Range(message_labels) \ Range(message_label_stored), hash_order)
    IN [tbl |-> tbl \o [k \in DOMAIN labels_to_add |->
                            [email_id |-> message_id, label_id |-> labels_to_add[k]]],
        deltas |-> <<>>]

\* Variant: every label row of the item is deleted and written again.
UpdateLabelsOf_rewrite(tbl, message_id, message_labels, hash_order) ==
    LET message_label_stored == StoredLabels(tbl, message_id)
    IN IF message_label_stored = message_labels
       THEN [tbl |-> tbl, deltas |-> <<>>]
       ELSE [tbl |-> SelectSeq(tbl, LAMBDA r : r.email_id # message_id)
                     \o [k \in DOMAIN message_labels |->
                            [email_id |-> message_id, label_id |-> message_labels[k]]],
             deltas |-> <<[message_id |-> message_id,
                           labels_to_add |->
                               Range(message_labels) \ Range(message_label_stored),
                           labels_to_remove |->
                               Range(message_label_stored) \ Range(message_labels)]>>]

\* one iteration of the loop of update_labels; hash_order is the iteration
\* order of Python's set of label ids in this process
UpdateLabelsOf(tbl, message_id, message_labels, hash_order) ==
    LET message_label_stored == StoredLabels(tbl, message_id)
        labels_to_add ==
            SetToSeqBy(Range(message_labels) \ Range(message_label_stored), hash_order)
        labels_to_remove ==
            SetToSeqBy(Range(message_label_stored) \ Range(message_labels), hash_order)
        added == tbl \o [k \in DOMAIN labels_to_add |->
                            [email_id |-> message_id, label_id |-> labels_to_add[k]]]
        removed == SelectSeq(added, LAMBDA r :
                        ~(r.email_id = message_id /\ r.label_id \in Range(labels_to_remove)))
    IN IF message_label_stored = message_labels
       THEN [tbl |-> tbl, deltas |-> <<>>]
       ELSE [tbl |-> removed,
             deltas |-> <<[message_id |-> message_id,
                           labels_to_add |-> Range(labels_to_add),
                           labels_to_remove |-> Range(labels_to_remove)]>>]

RECURSIVE update_labels(_, _, _, _)
update_labels(tbl, message_id_lst, message_meta_lst, hash_order) ==
    IF message_id_lst = <<>> \/ message_meta_lst = <<>>
    THEN [tbl |-> tbl, deltas |-> <<>>]
    ELSE LET one == UpdateLabelsOf(tbl, Head(message_id_lst), Head(message_meta_lst),
                                   hash_order)
             rest == update_labels(one.tbl, Tail(message_id_lst), Tail(message_meta_lst),
                                   hash_order)
         IN [tbl |-> rest.tbl, deltas |-> one.deltas \o rest.deltas]

_commit_content_table(content, df) ==
    content \o [k \in DOMAIN df |-> [email_id |-> df[k].id, email_deleted |-> FALSE]]

_commit_email_from_table(tbl, df) ==
    tbl \o [k \in DOMAIN df |-> [email_id |-> df[k].id]]

_commit_email_to_table(tbl, df) ==
    tbl \o [k \in DOMAIN df |-> [email_id |-> df[k].id]]

RECURSIVE _commit_label_table(_, _)
_commit_label_table(tbl, df) ==
    IF df = <<>> THEN tbl
    ELSE LET lid_lst == Head(df).label_ids
             rows == [k \in DOMAIN lid_lst |->
                         [email_id |-> Head(df).id, label_id |-> lid_lst[k]]]
         IN _commit_label_table(tbl \o rows, Tail(df))

_commit_thread_table(tbl, df) ==
    tbl \o [k \in DOMAIN df |-> [email_id |-> df[k].id, thread_id |-> df[k].thread_id]]

\* get_all_emails: the email_id column of the returned frame
get_all_emails(content, include_deleted) ==
    IF include_deleted
    THEN list_email_ids(content)
    ELSE list_email_ids(SelectSeq(content, LAMBDA r : r.email_deleted = FALSE))

\* store_dataframe on the five tables, each commit in the order of the code
store_dataframe(db, df) ==
    [email_content |-> _commit_content_table(db.email_content, df),
     email_from |-> _commit_email_from_table(db.email_from, df),
     email_to |-> _commit_email_to_table(db.email_to, df),
     labels |-> _commit_label_table(db.labels, df),
     threads |-> _commit_thread_table(db.threads, df)]

\* _store_emails_in_database
_store_emails_in_database(db, mailbox, message_id_lst) ==
    LET df == download_messages_to_dataframe(mailbox, message_id_lst)
    IN IF Len(df) > 0 THEN store_dataframe(db, df) ELSE db

----------------------------------------------------------------------------
(* Rule Matcher: Message and GoogleMailBase._filter_message_by_sender *)

\* Strings are sequences of characters.
StrBa == <<"b", "a">>
StrUpperA == <<"A">>
StrA == <<"a">>
HeaderValues == {None, StrBa, StrUpperA}
Patterns == {StrA}

\* A dict without a key holds NoPattern / NoLabelKey under it.
NoPattern == <<"(no key)">>
NoLabelKey == "(no key)"
HasKey(filter_dict, key) ==
    IF key = "label" THEN filter_dict[key] # NoLabelKey ELSE filter_dict[key] # NoPattern

\* The Label Catalog of the session: label name -> label id
_label_dict == [name \in {"L1", "L2"} |-> IF name = "L1" THEN "Label_1" ELSE "Label_2"]
RuleLabels == {"L1", "L2", "Lx", NoLabelKey}     \* "Lx" is not in the catalog

Rules == [from : Patterns \cup {NoPattern}, to : Patterns \cup {NoPattern},
          subject : Patterns \cup {NoPattern}, label : RuleLabels]

RuleLists == UNION {[1..n -> Rules] : n \in 0..MaxRules}

\* payload.headers of a message detail: the entries of the headers present
HeaderList(from, to, subject) ==
    (IF from = None THEN <<>> ELSE <<[name |-> "From", value |-> from]>>)
    \o (IF to = None THEN <<>> ELSE <<[name |-> "To", value |-> to]>>)
    \o (IF subject = None THEN <<>> ELSE <<[name |-> "Subject", value |-> subject]>>)

Messages == {HeaderList(f, t, u) : f \in HeaderValues, t \in HeaderValues,
                                   u \in HeaderValues}

get_header_field_from_message(headers, field) ==
    LET lst == SelectSeq(headers, LAMBDA entry : entry.name = field)
    IN IF Len(lst) > 0 THEN lst[1].value ELSE None

get_from(headers) == get_header_field_from_message(headers, "From")
get_to(headers) == get_header_field_from_message(headers, "To")
get_subject(headers) == get_header_field_from_message(headers, "Subject")

\* Python's `pattern in text` on two strings
IsIn(pattern, text) ==
    \E k \in 0..(Len(text) - Len(pattern)) :
        SubSeq(text, k + 1, k + Len(pattern)) = pattern

\* self._label_dict[filter_dict["label"]]: both lookups raise KeyError
LookupLabel(filter_dict) ==
    IF ~HasKey(filter_dict, "label") THEN "(KeyError)"
    ELSE IF filter_dict["label"] \notin DOMAIN _label_dict THEN "(KeyError)"
    ELSE _label_dict[filter_dict["label"]]

\* Variant: no `is not None` guard before `in`.
FieldTest_unguarded(filter_dict, key, header) ==
    IF ~HasKey(filter_dict, key) THEN "no"
    ELSE IF header = None THEN "raise"
    ELSE IF IsIn(filter_dict[key], header) THEN "yes" ELSE "no"

\* One `"key" in filter_dict.keys() and header is not None and
\* filter_dict["key"] in header`: "yes", "no", or "raise" when `in` is applied
\* to None (TypeError)
FieldTest(filter_dict, key, header) ==
    IF ~HasKey(filter_dict, key) THEN "no"
    ELSE IF header = None THEN "no"
    ELSE IF IsIn(filter_dict[key], header) THEN "yes" ELSE "no"

\* the three `if` conditions of one loop iteration, on the headers read by
\* get_from, get_to and get_subject
FieldTests(filter_dict, headers) ==
    [from |-> FieldTest(filter_dict, "from", get_from(headers)),
     to |-> FieldTest(filter_dict, "to", get_to(headers)),
     subject |-> FieldTest(filter_dict, "subject", get_subject(headers))]

RECURSIVE _filter_message_by_sender_last(_, _)
\* Variant: the last matching rule wins.
_filter_message_by_sender_last(rules, headers) ==
    IF rules = <<>> THEN "(None)"
    ELSE LET later == _filter_message_by_sender_last(Tail(rules), headers)
             t == FieldTests(Head(rules), headers)
         IN IF later # "(None)" THEN later
            ELSE IF "yes" \in {t.from, t.to, t.subject} THEN LookupLabel(Head(rules))
            ELSE "(None)"

RECURSIVE _filter_message_by_sender_and(_, _)
\* Variant: every populated field of a rule has to match.
_filter_message_by_sender_and(rules, headers) ==
    IF rules = <<>> THEN "(None)"
    ELSE LET filter_dict == Head(rules)
             t == FieldTests(filter_dict, headers)
             populated == {key \in {"from", "to", "subject"} : HasKey(filter_dict, key)}
         IN IF populated # {} /\ \A key \in populated : t[key] = "yes"
            THEN LookupLabel(filter_dict)
            ELSE _filter_message_by_sender_and(Tail(rules), headers)

RECURSIVE _filter_message_by_sender(_, _)
_filter_message_by_sender(rules, headers) ==
    IF rules = <<>> THEN "(None)"
    ELSE LET filter_dict == Head(rules)
             t == FieldTests(filter_dict, headers)
         IN IF t.from = "raise" THEN "(TypeError)"
            ELSE IF t.from = "yes" THEN LookupLabel(filter_dict)
            ELSE IF t.to = "raise" THEN "(TypeError)"
            ELSE IF t.to = "yes" THEN LookupLabel(filter_dict)
            ELSE IF t.subject = "raise" THEN "(TypeError)"
            ELSE IF t.subject = "yes" THEN LookupLabel(filter_dict)
            ELSE _filter_message_by_sender(Tail(rules), headers)

\* One call of the matcher on the inputs of the state.
FilterMessage ==
    /\ label_add = "(pending)"
    /\ label_add' = _filter_message_by_sender(filter_dict_lst, message)
    /\ UNCHANGED <<filter_dict_lst, message, syncvars, drivervars, session_new, auxvars>>

----------------------------------------------------------------------------
(* Reconciliation: GoogleMailBase.update_database *)

\* Variant: the quick flag is ignored.
RefreshWanted_always(q) == TRUE

\* `if not quick:` of update_database
RefreshWanted(q) == ~q

RECURSIVE FetchedBeforeRaise(_, _)
\* a list comprehension of detail fetches, each a single execute() call: the
\* ids fetched before one raises
FetchedBeforeRaise(message_id_lst, fail) ==
    IF message_id_lst = <<>> \/ Head(message_id_lst) \in fail THEN <<>>
    ELSE <<Head(message_id_lst)>> \o FetchedBeforeRaise(Tail(message_id_lst), fail)

\* The run as a function of its inputs: the quick flag, the ids whose detail
\* fetch raises, and the set iteration order of this process.  An exception leaves the commits made
\* before it in place and skips everything after it.
RunUpdateOn(db, mailbox, message_id_lst, q, fail, hash_order) ==
    LET diff == get_labels_to_update(db.email_content, message_id_lst)
        refresh == RefreshWanted(q)
        marked == IF refresh
                  THEN mark_emails_as_deleted(db.email_content, diff.deleted_messages_lst)
                  ELSE db.email_content
        label_fetch_raises ==
            refresh /\ (fail \cap Range(diff.message_label_updates_lst)) # {}
        upd == update_labels(db.labels, diff.message_label_updates_lst,
                   get_labels_for_emails(mailbox, diff.message_label_updates_lst),
                   hash_order)
        relabelled == IF refresh /\ ~label_fetch_raises THEN upd.tbl ELSE db.labels
        download_raises ==
            ~label_fetch_raises /\ (fail \cap Range(diff.new_messages_lst)) # {}
        raises == label_fetch_raises \/ download_raises
        db1 == [db EXCEPT !.email_content = marked, !.labels = relabelled]
    IN [diff |-> diff,
        deltas |-> IF refresh /\ ~label_fetch_raises THEN upd.deltas ELSE <<>>,
        fetched_metadata |->
            IF refresh THEN FetchedBeforeRaise(diff.message_label_updates_lst, fail)
            ELSE <<>>,
        fetched_full |->
            IF label_fetch_raises THEN <<>>
            ELSE FetchedBeforeRaise(diff.new_messages_lst, fail),
        raised |-> raises,
        db |-> IF raises THEN db1
               ELSE _store_emails_in_database(db1, mailbox, diff.new_messages_lst)]

\* GoogleMailBase.update_database: the listing is the unscoped search_email
RunUpdate(db, mailbox, q, fail, hash_order) ==
    RunUpdateOn(db, mailbox, search_email(RemoteListing(mailbox)), q, fail, hash_order)

Store == [email_content |-> email_content, email_from |-> email_from,
          email_to |-> email_to, labels |-> labels, threads |-> threads]

\* The run reaches a session.commit(): mark_emails_as_deleted always commits,
\* store_dataframe commits when the frame of new messages is not empty.
Committing(q, diff, fail) ==
    \/ RefreshWanted(q)
    \/ (diff.new_messages_lst # <<>> /\ fail \cap Range(diff.new_messages_lst) = {})

\* The store a run works on: its first commit also writes the rows the
\* session still holds from an operation that raised.
SessionStore(committing) ==
    IF committing THEN [Store EXCEPT !.labels = labels \o session_new] ELSE Store

\* the state a run leaves
Finishes(run, q, fail, committing) ==
    /\ email_content' = run.db.email_content
    /\ email_from' = run.db.email_from
    /\ email_to' = run.db.email_to
    /\ labels' = run.db.labels
    /\ threads' = run.db.threads
    /\ new_messages_lst' = run.diff.new_messages_lst
    /\ message_label_updates_lst' = run.diff.message_label_updates_lst
    /\ deleted_messages_lst' = run.diff.deleted_messages_lst
    /\ label_deltas' = run.deltas
    /\ fetched_metadata' = run.fetched_metadata
    /\ fetched_full' = run.fetched_full
    /\ status' = IF run.raised THEN "error" ELSE "done"
    /\ quick' = q
    /\ failed' = fail
    /\ session_new' = IF committing THEN <<>> ELSE session_new
    /\ second' = (status = "done" /\ ~quick /\ ~remote_changed)
    /\ remote_changed' = FALSE
    /\ runs' = runs + 1
    /\ UNCHANGED <<remote, changes, filtervars, drivervars, auxvars>>

update_database(q, fail, hash_order) ==
    /\ runs < MaxRuns
    /\ LET diff == get_labels_to_update(email_content,
                                        search_email(RemoteListing(remote)))
           committing == Committing(q, diff, fail)
       IN Finishes(RunUpdate(SessionStore(committing), remote, q, fail, hash_order),
                   q, fail, committing)

UpdateDatabase ==
    \E q \in BOOLEAN, hash_order \in Perms(Labels),
       fail \in {{}} \cup {{i} : i \in {j \in Ids : remote[j] # Absent}} :
        update_database(q, fail, hash_order)

\* The stubs the pages deliver when the remote listing moves between two page
\* requests: the stub at position k closes one page and opens the next.
ShiftedListing(mailbox, k) ==
    LET listing == RemoteListing(mailbox)
    IN SubSeq(listing, 1, k) \o SubSeq(listing, k, Len(listing))

\* update_database on the ids such a listing delivers
update_database_shifted(k, q, fail, hash_order) ==
    /\ runs < MaxRuns
    /\ k \in DOMAIN RemoteListing(remote)
    /\ LET message_id_lst == search_email(ShiftedListing(remote, k))
           diff == get_labels_to_update(email_content, message_id_lst)
           committing == Committing(q, diff, fail)
       IN Finishes(RunUpdateOn(SessionStore(committing), remote, message_id_lst,
                               q, fail, hash_order),
                   q, fail, committing)

UpdateDatabaseShifted ==
    \E k \in 1..Cardinality(Ids), q \in BOOLEAN, hash_order \in Perms(Labels) :
        update_database_shifted(k, q, {}, hash_order)

\* store_dataframe cut short: the first `commits` of its five commits, in the
\* order of the code, have reached the disk
StoreCommits(db, df, commits) ==
    [email_content |-> IF commits >= 1 THEN _commit_content_table(db.email_content, df)
                       ELSE db.email_content,
     email_from |-> IF commits >= 2 THEN _commit_email_from_table(db.email_from, df)
                    ELSE db.email_from,
     email_to |-> IF commits >= 3 THEN _commit_email_to_table(db.email_to, df)
                  ELSE db.email_to,
     labels |-> IF commits >= 4 THEN _commit_label_table(db.labels, df)
                ELSE db.labels,
     threads |-> IF commits >= 5 THEN _commit_thread_table(db.threads, df)
                 ELSE db.threads]

\* A full run the process does not survive: it dies inside store_dataframe,
\* after `commits` of the commits (none: it dies before the first).
interrupted_update_database(hash_order, commits) ==
    /\ runs < MaxRuns
    /\ LET message_id_lst == search_email(RemoteListing(remote))
           diff == get_labels_to_update(email_content, message_id_lst)
           upd == update_labels(labels, diff.message_label_updates_lst,
                      get_labels_for_emails(remote, diff.message_label_updates_lst),
                      hash_order)
           db1 == [Store EXCEPT
                      !.email_content =
                          mark_emails_as_deleted(email_content, diff.deleted_messages_lst),
                      !.labels = upd.tbl]
           df == download_messages_to_dataframe(remote, diff.new_messages_lst)
           db2 == StoreCommits(db1, df, commits)
       IN /\ email_content' = db2.email_content
          /\ email_from' = db2.email_from
          /\ email_to' = db2.email_to
          /\ labels' = db2.labels
          /\ threads' = db2.threads
          /\ new_messages_lst' = diff.new_messages_lst
          /\ message_label_updates_lst' = diff.message_label_updates_lst
          /\ deleted_messages_lst' = diff.deleted_messages_lst
          /\ label_deltas' = upd.deltas
          /\ fetched_metadata' = diff.message_label_updates_lst
          /\ fetched_full' = diff.new_messages_lst
    /\ status' = "crash"
    /\ session_new' = <<>>
    /\ quick' = FALSE
    /\ failed' = {}
    /\ second' = FALSE
    /\ remote_changed' = FALSE
    /\ runs' = runs + 1
    /\ UNCHANGED <<remote, changes, filtervars, drivervars, auxvars>>

InterruptedRun ==
    \E hash_order \in Perms(Labels), commits \in 0..4 :
        interrupted_update_database(hash_order, commits)

\* A full run in which the database raises inside update_labels, on the
\* DELETE of the changed item at position k: the deltas of the items before it
\* are committed, the rows add_all put into the session for it are not, and
\* nothing rolls them back.
update_labels_raises(k, hash_order) ==
    /\ runs < MaxRuns
    /\ LET message_id_lst == search_email(RemoteListing(remote))
           diff == get_labels_to_update(email_content, message_id_lst)
           ids == diff.message_label_updates_lst
           before == update_labels(labels \o session_new, SubSeq(ids, 1, k - 1),
                                   get_labels_for_emails(remote, SubSeq(ids, 1, k - 1)),
                                   hash_order)
           stored == Range(StoredLabels(before.tbl, ids[k]))
           labels_to_add == SetToSeqBy(Range(remote[ids[k]]) \ stored, hash_order)
           labels_to_remove == SetToSeqBy(stored \ Range(remote[ids[k]]), hash_order)
       IN /\ k \in DOMAIN ids
          /\ labels_to_remove # <<>>
          /\ email_content' = mark_emails_as_deleted(email_content,
                                                     diff.deleted_messages_lst)
          /\ labels' = before.tbl
          /\ session_new' = [j \in DOMAIN labels_to_add |->
                                [email_id |-> ids[k], label_id |-> labels_to_add[j]]]
          /\ new_messages_lst' = diff.new_messages_lst
          /\ message_label_updates_lst' = ids
          /\ deleted_messages_lst' = diff.deleted_messages_lst
          /\ label_deltas' = before.deltas
          /\ fetched_metadata' = ids
    /\ fetched_full' = <<>>
    /\ status' = "error"
    /\ quick' = FALSE
    /\ failed' = {}
    /\ second' = FALSE
    /\ remote_changed' = FALSE
    /\ runs' = runs + 1
    /\ UNCHANGED <<remote, changes, email_from, email_to, threads,
                   filtervars, drivervars, auxvars>>

UpdateLabelsRaises ==
    \E k \in 1..Cardinality(Ids), hash_order \in Perms(Labels) :
        update_labels_raises(k, hash_order)

\* The process ends and another one opens the database: the rows a session
\* held without committing are gone.
NewSession ==
    /\ session_new # <<>>
    /\ session_new' = <<>>
    /\ UNCHANGED <<syncvars, filtervars, drivervars, auxvars>>

\* The environment: one remote message appears, disappears or is relabelled.
RemoteChange ==
    /\ changes < MaxChanges
    /\ \E i \in ChurnIds : \E v \in RemoteVals \ {remote[i]} :
          remote' = [remote EXCEPT ![i] = v]
    /\ remote_changed' = TRUE
    /\ changes' = changes + 1
    /\ UNCHANGED <<email_content, labels, threads, email_from, email_to,
                   new_messages_lst, message_label_updates_lst, deleted_messages_lst,
                   label_deltas, fetched_metadata, fetched_full, status, quick,
                   failed, second, runs, filtervars, drivervars, session_new, auxvars>>

EmptyStore == [email_content |-> <<>>, email_from |-> <<>>, email_to |-> <<>>,
               labels |-> <<>>, threads |-> <<>>]

\* the store and the bookkeeping of the runs before the first operation
InitRun(db) ==
    /\ email_content = db.email_content
    /\ email_from = db.email_from
    /\ email_to = db.email_to
    /\ labels = db.labels
    /\ threads = db.threads
    /\ new_messages_lst = <<>>
    /\ message_label_updates_lst = <<>>
    /\ deleted_messages_lst = <<>>
    /\ label_deltas = <<>>
    /\ fetched_metadata = <<>>
    /\ fetched_full = <<>>
    /\ status = "idle"
    /\ quick = FALSE
    /\ failed = {}
    /\ remote_changed = FALSE
    /\ second = FALSE
    /\ runs = 0
    /\ changes = 0

InitSync(db, live) ==
    /\ remote \in {m \in [Ids -> RemoteVals] : \A i \in Ids \ live : m[i] = Absent}
    /\ InitRun(db)

InitFilterIdle ==
    /\ filter_dict_lst = <<>>
    /\ message = <<>>
    /\ label_add = "(idle)"

\* no label operation called yet
NoCall == [name |-> "(none)", label |-> "", filter_dict_lst |-> <<>>,
           label_lst |-> <<>>, message_id |-> 0, label_id_remove_lst |-> <<>>,
           label_id_add_lst |-> <<>>, task_dict |-> <<>>]

InitDriverIdle ==
    /\ mail_headers = [i \in Ids |-> <<>>]
    /\ call = NoCall
    /\ requests = <<>>
    /\ raised = "(none)"

\* nothing pending in the session, no pure function applied, no listing drained
NoPaging == [impl |-> "(none)", phase |-> "idle", listing |-> <<>>, sent |-> <<>>,
             returned |-> <<>>, next_page_token |-> <<>>, message_items_lst |-> <<>>]
\* no item record: to_dict not called yet
NoItem == [raised |-> "(idle)", id |-> 0, thread_id |-> 0, label_ids |-> <<>>,
           to |-> None, from |-> None, subject |-> None, date |-> None]
NoAnswers == [filter_py |-> "(idle)", gmail_py |-> "(idle)", google_mail_py |-> "(idle)"]

InitAuxIdle ==
    /\ session_new = <<>>
    /\ email = <<>>
    /\ address = <<>>
    /\ detail = <<>>
    /\ item = NoItem
    /\ paging = NoPaging
    /\ answers = NoAnswers

\* A session on a fresh store, the remote mailbox changing between runs.
Init == InitSync(EmptyStore, ChurnIds) /\ InitFilterIdle /\ InitDriverIdle /\ InitAuxIdle

Next == UpdateDatabase \/ RemoteChange

Spec == Init /\ [][Next]_vars

\* A session on the store an earlier session left: the mirror of a mailbox
\* that held message 2 under INBOX and SPAM and message 4 under INBOX.
MirrorStore ==
    _store_emails_in_database(EmptyStore,
        [i \in Ids |-> IF i = 2 THEN <<"INBOX", "SPAM">>
                       ELSE IF i = 4 THEN <<"INBOX">> ELSE Absent],
        <<2, 4>>)

InitMirror ==
    InitSync(MirrorStore, MirrorIds) /\ InitFilterIdle /\ InitDriverIdle /\ InitAuxIdle

NextMirror == UpdateDatabase

SpecMirror == InitMirror /\ [][NextMirror]_vars

\* A session on a fresh store in which a run may die inside store_dataframe.
InitCrash ==
    InitSync(EmptyStore, ChurnIds) /\ InitFilterIdle /\ InitDriverIdle /\ InitAuxIdle

NextCrash == UpdateDatabase \/ InterruptedRun

SpecCrash == InitCrash /\ [][NextCrash]_vars

\* A session on the mirrored store in which update_labels may raise.
SessionIds == {1, 2, 4}
InitSession ==
    /\ remote \in {m \in [Ids -> RemoteVals \cup {<<"SPAM">>}] :
                      \A i \in Ids \ SessionIds : m[i] = Absent}
    /\ InitRun(MirrorStore)
    /\ InitFilterIdle /\ InitDriverIdle /\ InitAuxIdle

NextSession == UpdateDatabase \/ UpdateLabelsRaises \/ NewSession

SpecSession == InitSession /\ [][NextSession]_vars

\* Runs on listings that may deliver a stub twice.
NextListing == UpdateDatabase \/ UpdateDatabaseShifted

SpecListing == InitMirror /\ [][NextListing]_vars

\* The mirrored store after a full run that found message 4 gone.
TombstonedStore ==
    RunUpdate(MirrorStore,
              [i \in Ids |-> IF i = 2 THEN <<"INBOX", "SPAM">> ELSE Absent],
              FALSE, {}, <<"INBOX", "SPAM">>).db

TombstoneIds == {2, 4}
InitTombstone ==
    InitSync(TombstonedStore, TombstoneIds) /\ InitFilterIdle /\ InitDriverIdle /\ InitAuxIdle

NextTombstone == UpdateDatabase

SpecTombstone == InitTombstone /\ [][NextTombstone]_vars

\* The matcher on every rule list and message of the bounded sets.
InitFilter ==
    /\ InitSync(EmptyStore, {})
    /\ filter_dict_lst \in RuleLists
    /\ message \in Messages
    /\ label_add = "(pending)"
    /\ InitDriverIdle
    /\ InitAuxIdle

NextFilter == FilterMessage

SpecFilter == InitFilter /\ [][NextFilter]_vars

----------------------------------------------------------------------------
(* Label Mutation Driver: filter_label_by_sender, remove_labels_from_emails, *)
(* _modify_message_labels, load_json_tasks                                  *)

MaxTasks == 3

DriverIds == {1, 2, 3}          \* the messages the mailbox may hold in SpecDriver
LabelIdOrder == <<"Label_1", "Label_2">>
DriverVals == {Absent, <<"Label_1">>, <<"Label_2">>, <<"Label_1", "Label_2">>}
DriverHeaders == {HeaderList(StrBa, None, None), HeaderList(StrUpperA, None, None)}
SourceLabels == {"L1", "L2", "Lx"}
ArgLists == {<<>>, <<"Label_1">>, <<"Label_2">>}
DriverRules == [from : {StrA, StrUpperA}, to : {NoPattern},
                subject : {NoPattern}, label : RuleLabels]
DriverRuleLists == UNION {[1..n -> DriverRules] : n \in 0..MaxRules}

\* A body_dict without a key holds Unset under it.
Unset == <<"(unset)">>

\* the sync bookkeeping a label operation leaves alone
runvars == <<email_content, labels, threads, email_from, email_to,
             new_messages_lst, message_label_updates_lst, deleted_messages_lst,
             label_deltas, fetched_metadata, fetched_full, status, quick, failed,
             remote_changed, second, runs, changes>>

\* users().messages().list(labelIds=label_ids): the stubs of the messages
\* carrying every one of the label ids
LabelListing(mailbox, label_ids) ==
    SelectSeq(RemoteListing(mailbox),
              LAMBDA d : Range(label_ids) \subseteq Range(mailbox[d.id]))

\* users().messages().modify(id, body).execute() on the remote side; tie says
\* which side the remote takes for a label id named in both lists
ModifyResponse(mailbox, req, tie) ==
    LET rem == IF req.body.removeLabelIds = Unset THEN {}
               ELSE Range(req.body.removeLabelIds)
        add == IF req.body.addLabelIds = Unset THEN {}
               ELSE Range(req.body.addLabelIds)
        rem1 == IF tie = "add" THEN rem \ add ELSE rem
        add1 == IF tie = "remove" THEN add \ rem ELSE add
        now == (Range(mailbox[req.id]) \ rem1) \cup add1
    IN [mailbox EXCEPT ![req.id] = SetToSeqBy(now, LabelIdOrder)]

RECURSIVE ModifyResponses(_, _, _)
ModifyResponses(mailbox, reqs, tie) ==
    IF reqs = <<>> THEN mailbox
    ELSE ModifyResponses(ModifyResponse(mailbox, Head(reqs), tie), Tail(reqs), tie)

\* Variant: the request is sent even when body_dict is empty.
_modify_message_labels_always_call(message_id, label_id_remove_lst, label_id_add_lst) ==
    <<[id |-> message_id,
       body |-> [removeLabelIds |-> IF Len(label_id_remove_lst) > 0
                                    THEN label_id_remove_lst ELSE Unset,
                 addLabelIds |-> IF Len(label_id_add_lst) > 0
                                 THEN label_id_add_lst ELSE Unset]]>>

\* Variant: the removal and the addition travel in two requests.
_modify_message_labels_two_calls(message_id, label_id_remove_lst, label_id_add_lst) ==
    (IF Len(label_id_remove_lst) > 0
     THEN <<[id |-> message_id,
             body |-> [removeLabelIds |-> label_id_remove_lst, addLabelIds |-> Unset]]>>
     ELSE <<>>)
    \o (IF Len(label_id_add_lst) > 0
        THEN <<[id |-> message_id,
                body |-> [removeLabelIds |-> Unset, addLabelIds |-> label_id_add_lst]]>>
        ELSE <<>>)

\* _modify_message_labels: the modify requests it issues, none or one
_modify_message_labels(message_id, label_id_remove_lst, label_id_add_lst) ==
    LET body_dict ==
            [removeLabelIds |-> IF Len(label_id_remove_lst) > 0
                                THEN label_id_remove_lst ELSE Unset,
             addLabelIds |-> IF Len(label_id_add_lst) > 0
                             THEN label_id_add_lst ELSE Unset]
    IN IF body_dict.removeLabelIds # Unset \/ body_dict.addLabelIds # Unset
       THEN <<[id |-> message_id, body |-> body_dict]>>
       ELSE <<>>

\* the outcome of a label operation: the mailbox it leaves, the requests it
\* issued and the exception it ended with
Outcome(mailbox, reqs, exc) == [mailbox |-> mailbox, requests |-> reqs, raised |-> exc]

RECURSIVE FilterEach_on_none(_, _, _, _, _, _)
\* Variant: a message no rule matches has its source label removed.
FilterEach_on_none(mailbox, hdrs, ids, rules, label_id, tie) ==
    IF ids = <<>> THEN Outcome(mailbox, <<>>, "(none)")
    ELSE LET message_id == Head(ids)
             matched == _filter_message_by_sender(rules, hdrs[message_id])
         IN IF matched \in {"(KeyError)", "(TypeError)"}
            THEN Outcome(mailbox, <<>>, matched)
            ELSE LET reqs == IF matched # "(None)"
                             THEN _modify_message_labels(message_id, <<label_id>>,
                                                         <<matched>>)
                             ELSE _modify_message_labels(message_id, <<label_id>>, <<>>)
                     rest == FilterEach_on_none(ModifyResponses(mailbox, reqs, tie),
                                                hdrs, Tail(ids), rules, label_id, tie)
                 IN Outcome(rest.mailbox, reqs \o rest.requests, rest.raised)

RECURSIVE FilterEach(_, _, _, _, _, _)
\* the loop of filter_label_by_sender over the listed message ids
FilterEach(mailbox, hdrs, ids, rules, label_id, tie) ==
    IF ids = <<>> THEN Outcome(mailbox, <<>>, "(none)")
    ELSE LET message_id == Head(ids)
             matched == _filter_message_by_sender(rules, hdrs[message_id])
         IN IF matched \in {"(KeyError)", "(TypeError)"}
            THEN Outcome(mailbox, <<>>, matched)
            ELSE LET reqs == IF matched # "(None)"
                             THEN _modify_message_labels(message_id, <<label_id>>,
                                                         <<matched>>)
                             ELSE <<>>
                     rest == FilterEach(ModifyResponses(mailbox, reqs, tie), hdrs,
                                        Tail(ids), rules, label_id, tie)
                 IN Outcome(rest.mailbox, reqs \o rest.requests, rest.raised)

\* search_email(query_string="", label_lst=[label]) and _get_message_ids
ListedUnder(mailbox, label_id) ==
    _get_message_ids(_get_messages(LabelListing(mailbox, <<label_id>>)))

filter_label_by_sender(mailbox, hdrs, label, rules, tie) ==
    IF label \notin DOMAIN _label_dict
    THEN Outcome(mailbox, <<>>, "(KeyError)")
    ELSE FilterEach(mailbox, hdrs, ListedUnder(mailbox, _label_dict[label]), rules,
                    _label_dict[label], tie)

RECURSIVE StripEach(_, _)
\* the inner loop of remove_labels_from_emails: the requests for one label
StripEach(ids, label_id) ==
    IF ids = <<>> THEN <<>>
    ELSE _modify_message_labels(Head(ids), <<label_id>>, <<>>)
         \o StripEach(Tail(ids), label_id)

\* Variant: only the first page of the listing is stripped.
StripLabel_first_page(mailbox, label_id) ==
    StripEach(_get_message_ids(
                  _get_messages_page(LabelListing(mailbox, <<label_id>>), <<>>).messages),
              label_id)

\* one iteration of the outer loop: the listing is drained, then stripped
StripLabel(mailbox, label_id) ==
    StripEach(_get_message_ids(_get_messages(LabelListing(mailbox, <<label_id>>))),
              label_id)

RECURSIVE StripLabels(_, _, _)
StripLabels(mailbox, label_convert_lst, tie) ==
    IF label_convert_lst = <<>> THEN Outcome(mailbox, <<>>, "(none)")
    ELSE LET reqs == StripLabel(mailbox, Head(label_convert_lst))
             rest == StripLabels(ModifyResponses(mailbox, reqs, tie),
                                 Tail(label_convert_lst), tie)
         IN Outcome(rest.mailbox, reqs \o rest.requests, rest.raised)

remove_labels_from_emails(mailbox, label_lst, tie) ==
    IF \E k \in DOMAIN label_lst : label_lst[k] \notin DOMAIN _label_dict
    THEN Outcome(mailbox, <<>>, "(KeyError)")
    ELSE StripLabels(mailbox, [k \in DOMAIN label_lst |-> _label_dict[label_lst[k]]], tie)

\* The task dictionaries: task kinds in file order, each kind at most once,
\* every kind with one task input.
TaskKinds == {"remove_labels_from_emails", "filter_label_by_sender", "database", "bogus"}
TaskInput(task) ==
    [label_lst |-> IF task = "remove_labels_from_emails" THEN <<"L1">> ELSE <<>>,
     label |-> IF task = "filter_label_by_sender" THEN "L2" ELSE "",
     filter_dict_lst |->
         IF task = "filter_label_by_sender"
         THEN <<[from |-> StrA, to |-> NoPattern, subject |-> NoPattern, label |-> "L1"]>>
         ELSE <<>>]
TaskDicts ==
    UNION {{[k \in 1..n |-> [task |-> f[k], task_input |-> TaskInput(f[k])]] :
                f \in {g \in [1..n -> TaskKinds] :
                          \A i, j \in 1..n : i # j => g[i] # g[j]}} :
           n \in 0..MaxTasks}

RECURSIVE load_json_tasks_skip_unknown(_, _, _, _)
\* Variant: a task that is not recognized is skipped.
load_json_tasks_skip_unknown(mailbox, hdrs, task_dict, tie) ==
    IF task_dict = <<>> THEN Outcome(mailbox, <<>>, "(none)")
    ELSE LET task == Head(task_dict).task
             task_input == Head(task_dict).task_input
             one == IF task = "remove_labels_from_emails"
                    THEN remove_labels_from_emails(mailbox, task_input.label_lst, tie)
                    ELSE IF task = "filter_label_by_sender"
                    THEN filter_label_by_sender(mailbox, hdrs, task_input.label,
                                                task_input.filter_dict_lst, tie)
                    ELSE Outcome(mailbox, <<>>, "(none)")
         IN IF one.raised # "(none)" THEN one
            ELSE LET rest == load_json_tasks_skip_unknown(one.mailbox, hdrs,
                                                          Tail(task_dict), tie)
                 IN Outcome(rest.mailbox, one.requests \o rest.requests, rest.raised)

RECURSIVE load_json_tasks(_, _, _, _)
\* the loop over task_dict.items(); the machine learning task needs the
\* pydatamail_ml extension and is not among the task kinds
load_json_tasks(mailbox, hdrs, task_dict, tie) ==
    IF task_dict = <<>> THEN Outcome(mailbox, <<>>, "(none)")
    ELSE LET task == Head(task_dict).task
             task_input == Head(task_dict).task_input
             one == IF task = "remove_labels_from_emails"
                    THEN remove_labels_from_emails(mailbox, task_input.label_lst, tie)
                    ELSE IF task = "filter_label_by_sender"
                    THEN filter_label_by_sender(mailbox, hdrs, task_input.label,
                                                task_input.filter_dict_lst, tie)
                    ELSE IF task # "database"
                    THEN Outcome(mailbox, <<>>, "(ValueError)")
                    ELSE Outcome(mailbox, <<>>, "(none)")
         IN IF one.raised # "(none)" THEN one
            ELSE LET rest == load_json_tasks(one.mailbox, hdrs, Tail(task_dict), tie)
                 IN Outcome(rest.mailbox, one.requests \o rest.requests, rest.raised)

\* A label operation ends: its requests are on the log, the mailbox is as the
\* remote side left it.
Returns(c, out) ==
    /\ call' = c
    /\ requests' = out.requests
    /\ raised' = out.raised
    /\ remote' = out.mailbox
    /\ UNCHANGED <<mail_headers, runvars, filtervars, session_new, auxvars>>

FilterLabelBySender ==
    /\ call = NoCall
    /\ \E label \in SourceLabels, rules \in DriverRuleLists, tie \in {"add", "remove"} :
           Returns([NoCall EXCEPT !.name = "filter_label_by_sender", !.label = label,
                                  !.filter_dict_lst = rules],
                   filter_label_by_sender(remote, mail_headers, label, rules, tie))

RemoveLabelsFromEmails ==
    /\ call = NoCall
    /\ \E label_lst \in UNION {[1..n -> SourceLabels] : n \in 0..2},
          tie \in {"add", "remove"} :
           Returns([NoCall EXCEPT !.name = "remove_labels_from_emails",
                                  !.label_lst = label_lst],
                   remove_labels_from_emails(remote, label_lst, tie))

ModifyMessageLabels ==
    /\ call = NoCall
    /\ \E message_id \in {i \in Ids : remote[i] # Absent},
          label_id_remove_lst \in ArgLists, label_id_add_lst \in ArgLists,
          tie \in {"add", "remove"} :
           LET reqs == _modify_message_labels(message_id, label_id_remove_lst,
                                              label_id_add_lst)
           IN Returns([NoCall EXCEPT !.name = "_modify_message_labels",
                                     !.message_id = message_id,
                                     !.label_id_remove_lst = label_id_remove_lst,
                                     !.label_id_add_lst = label_id_add_lst],
                      Outcome(ModifyResponses(remote, reqs, tie), reqs, "(none)"))

LoadJsonTasks ==
    /\ call = NoCall
    /\ \E task_dict \in TaskDicts, tie \in {"add", "remove"} :
           Returns([NoCall EXCEPT !.name = "load_json_tasks", !.task_dict = task_dict],
                   load_json_tasks(remote, mail_headers, task_dict, tie))

\* A session of one label operation on a mailbox of up to three messages.
InitDriver ==
    /\ remote \in {m \in [Ids -> DriverVals] : \A i \in Ids \ DriverIds : m[i] = Absent}
    /\ mail_headers \in {h \in [Ids -> DriverHeaders \cup {<<>>}] :
                            \A i \in Ids : (h[i] = <<>>) <=> (remote[i] = Absent)}
    /\ InitRun(EmptyStore)
    /\ InitFilterIdle
    /\ InitAuxIdle
    /\ call = NoCall
    /\ requests = <<>>
    /\ raised = "(none)"

NextDriver ==
    FilterLabelBySender \/ RemoveLabelsFromEmails \/ ModifyMessageLabels \/ LoadJsonTasks

SpecDriver == InitDriver /\ [][NextDriver]_vars

----------------------------------------------------------------------------
(* Header projection: get_email_address (message_tables.py) and             *)
(* Message.to_dict (message.py)                                             *)

MaxLen == 4

\* Raw header values: strings over an upper-case letter, its lower-case
\* letter and the two angle brackets.
Chars == {"J", "j", "<", ">"}
RawValues == UNION {[1..n -> Chars] : n \in 0..MaxLen}

\* str.lower()
lower(s) == [k \in DOMAIN s |-> IF s[k] = "J" THEN "j" ELSE s[k]]

\* the index of the first occurrence of sep in s, 0 when there is none
Find(s, sep) ==
    IF \E k \in DOMAIN s : s[k] = sep
    THEN CHOOSE k \in DOMAIN s : s[k] = sep /\ \A j \in 1..(k - 1) : s[j] # sep
    ELSE 0

RECURSIVE split(_, _)
\* str.split(sep) for a separator of one character
split(s, sep) ==
    IF Find(s, sep) = 0 THEN <<s>>
    ELSE <<SubSeq(s, 1, Find(s, sep) - 1)>>
         \o split(SubSeq(s, Find(s, sep) + 1, Len(s)), sep)

get_email_address(raw) ==
    LET email_split == split(raw, "<")
    IN IF Len(email_split) = 1
       THEN lower(raw)
       ELSE lower(split(email_split[2], ">")[1])

\* Date header values: none, a text in the format of get_date, another text
StrDate == <<"Mon, 02 Jan 2006 15:04:05 +0000">>
StrNoDate == <<"yesterday">>
DateValues == {None, StrDate, StrNoDate}

\* datetime.strptime(value, "%a, %d %b %Y %H:%M:%S %z"): the datetime, or the
\* exception for a value that is not a string or not in the format
strptime(value) ==
    IF value = None THEN [raised |-> "(TypeError)", datetime |-> None]
    ELSE IF value = StrDate
    THEN [raised |-> "(none)", datetime |-> <<"2006-01-02T15:04:05+00:00">>]
    ELSE [raised |-> "(ValueError)", datetime |-> None]

\* the fetched messages: id, threadId, labelIds and payload.headers
Details ==
    {[id |-> 1, threadId |-> 1, labelIds |-> l,
      headers |-> HeaderList(f, None, None)
                  \o (IF d = None THEN <<>> ELSE <<[name |-> "Date", value |-> d]>>)] :
        l \in {<<>>, <<"INBOX">>}, f \in HeaderValues, d \in DateValues}

get_date(message_dict) ==
    strptime(get_header_field_from_message(message_dict.headers, "Date"))

\* Message.to_dict: the record, or the exception its last entry raises
to_dict(message_dict) ==
    [raised |-> get_date(message_dict).raised,
     id |-> message_dict.id,
     thread_id |-> message_dict.threadId,
     label_ids |-> message_dict.labelIds,
     to |-> get_to(message_dict.headers),
     from |-> get_from(message_dict.headers),
     subject |-> get_subject(message_dict.headers),
     date |-> get_date(message_dict).datetime]

\* get_email_address on the raw value, then on its own output
GetEmailAddress ==
    /\ email # None
    /\ Len(address) < 2
    /\ address' = Append(address, get_email_address(IF address = <<>> THEN email
                                                    ELSE address[Len(address)]))
    /\ UNCHANGED <<email, detail, item, paging, answers, session_new,
                   syncvars, filtervars, drivervars>>

\* get_email_dict(message) on the fetched message
ToDict ==
    /\ detail # <<>>
    /\ item = NoItem
    /\ item' = to_dict(detail)
    /\ UNCHANGED <<email, address, detail, paging, answers, session_new,
                   syncvars, filtervars, drivervars>>

\* A raw address value and a fetched message, each projected.
InitMessage ==
    /\ InitSync(EmptyStore, {})
    /\ InitFilterIdle
    /\ InitDriverIdle
    /\ session_new = <<>>
    /\ email \in RawValues
    /\ address = <<>>
    /\ detail \in Details
    /\ item = NoItem
    /\ paging = NoPaging
    /\ answers = NoAnswers

NextMessage == GetEmailAddress \/ ToDict

SpecMessage == InitMessage /\ [][NextMessage]_vars

-----------------------------------------------------------------------------
(* The three _get_messages, one page request per step *)

MaxRequests == 6                \* page requests followed in one call
Implementations == {"filter.py", "gmail.py", "google_mail.py"}
PagingListings ==
    {RemoteListing(m) : m \in [Ids -> {<<"INBOX">>, Absent}]}

\* the next_page_token argument of the request inside the while loop
LoopToken(impl, next_page_token) ==
    IF impl = "filter.py" THEN <<>> ELSE next_page_token

\* the call before the loop: next_page_token=None
FirstPage ==
    /\ paging.phase = "idle"
    /\ LET page == _get_messages_page(paging.listing, <<>>)
       IN paging' = [paging EXCEPT !.phase = "loop",
                                   !.sent = <<<<>>>>,
                                   !.returned = <<page.nextPageToken>>,
                                   !.next_page_token = page.nextPageToken,
                                   !.message_items_lst = page.messages]
    /\ UNCHANGED <<email, address, detail, item, answers, session_new,
                   syncvars, filtervars, drivervars>>

\* one turn of `while next_page_token:`
NextPage ==
    /\ paging.phase = "loop"
    /\ paging.next_page_token # <<>>
    /\ Len(paging.sent) < MaxRequests
    /\ LET token == LoopToken(paging.impl, paging.next_page_token)
           page == _get_messages_page(paging.listing, token)
       IN paging' = [paging EXCEPT !.sent = Append(@, token),
                                   !.returned = Append(@, page.nextPageToken),
                                   !.next_page_token = page.nextPageToken,
                                   !.message_items_lst = @ \o page.messages]
    /\ UNCHANGED <<email, address, detail, item, answers, session_new,
                   syncvars, filtervars, drivervars>>

\* the loop is left and the list returned
ReturnMessages ==
    /\ paging.phase = "loop"
    /\ paging.next_page_token = <<>>
    /\ paging' = [paging EXCEPT !.phase = "returned"]
    /\ UNCHANGED <<email, address, detail, item, answers, session_new,
                   syncvars, filtervars, drivervars>>

InitPaging ==
    /\ InitSync(EmptyStore, {})
    /\ InitFilterIdle
    /\ InitDriverIdle
    /\ session_new = <<>>
    /\ email = <<>>
    /\ address = <<>>
    /\ detail = <<>>
    /\ item = NoItem
    /\ paging \in {[NoPaging EXCEPT !.impl = i, !.listing = l] :
                      i \in Implementations, l \in PagingListings}
    /\ answers = NoAnswers

NextPaging == FirstPage \/ NextPage \/ ReturnMessages

SpecPaging == InitPaging /\ [][NextPaging]_vars

-----------------------------------------------------------------------------
(* The _filter_message_by_sender of filter.py and of gmail.py *)

\* filter.py: `"key" in filter_dict.keys() and filter_dict["key"] in
\* message.get_...()`; `in` applied to None raises TypeError
FieldTestFilterPy(filter_dict, key, header) ==
    IF ~HasKey(filter_dict, key) THEN "no"
    ELSE IF header = None THEN "raise"
    ELSE IF IsIn(filter_dict[key], header) THEN "yes" ELSE "no"

RECURSIVE _filter_message_by_sender_filter_py(_, _)
_filter_message_by_sender_filter_py(rules, headers) ==
    IF rules = <<>> THEN "(None)"
    ELSE LET filter_dict == Head(rules)
             from == FieldTestFilterPy(filter_dict, "from", get_from(headers))
             to == FieldTestFilterPy(filter_dict, "to", get_to(headers))
             subject == FieldTestFilterPy(filter_dict, "subject", get_subject(headers))
         IN IF from = "raise" THEN "(TypeError)"
            ELSE IF from = "yes" THEN LookupLabel(filter_dict)
            ELSE IF to = "raise" THEN "(TypeError)"
            ELSE IF to = "yes" THEN LookupLabel(filter_dict)
            ELSE IF subject = "raise" THEN "(TypeError)"
            ELSE IF subject = "yes" THEN LookupLabel(filter_dict)
            ELSE _filter_message_by_sender_filter_py(Tail(rules), headers)

\* gmail.py: each test has its `is not None` guard
FieldTestGmailPy(filter_dict, key, header) ==
    HasKey(filter_dict, key) /\ header # None /\ IsIn(filter_dict[key], header)

RECURSIVE _filter_message_by_sender_gmail_py(_, _)
_filter_message_by_sender_gmail_py(rules, headers) ==
    IF rules = <<>> THEN "(None)"
    ELSE LET filter_dict == Head(rules)
             message_from == get_from(headers)
             message_to == get_to(headers)
             message_subject == get_subject(headers)
         IN IF FieldTestGmailPy(filter_dict, "from", message_from)
            THEN LookupLabel(filter_dict)
            ELSE IF FieldTestGmailPy(filter_dict, "to", message_to)
            THEN LookupLabel(filter_dict)
            ELSE IF FieldTestGmailPy(filter_dict, "subject", message_subject)
            THEN LookupLabel(filter_dict)
            ELSE _filter_message_by_sender_gmail_py(Tail(rules), headers)

\* The three implementations called on the rule list and message of the state.
FilterMessageByAll ==
    /\ answers = NoAnswers
    /\ answers' = [filter_py |-> _filter_message_by_sender_filter_py(filter_dict_lst, message),
                   gmail_py |-> _filter_message_by_sender_gmail_py(filter_dict_lst, message),
                   google_mail_py |-> _filter_message_by_sender(filter_dict_lst, message)]
    /\ UNCHANGED <<email, address, detail, item, paging, session_new,
                   syncvars, filtervars, drivervars>>

NextMatchers == FilterMessageByAll

SpecMatchers == InitFilter /\ [][NextMatchers]_vars

-----------------------------------------------------------------------------
(* Gmail.update_database(label_lst) of gmail.py: the label-scoped run *)

\* the Label Catalog entries of the system labels: the name is the id
SystemLabelDict == [name \in Labels |-> name]
ScopeLists == {<<"INBOX">>, <<"SPAM">>, <<"INBOX", "SPAM">>}

\* search_email(label_lst=label_lst, only_message_ids=True)
search_email_scoped(mailbox, label_lst) ==
    LET label_ids == [k \in DOMAIN label_lst |-> SystemLabelDict[label_lst[k]]]
    IN _get_message_ids(_get_messages(LabelListing(mailbox, label_ids)))

\* the run has no quick flag: tombstones and label deltas are always applied
update_database_scoped(label_lst, fail, hash_order) ==
    /\ runs < MaxRuns
    /\ Finishes(RunUpdateOn(SessionStore(TRUE), remote,
                            search_email_scoped(remote, label_lst),
                            FALSE, fail, hash_order),
                FALSE, fail, TRUE)

UpdateDatabaseScoped ==
    \E label_lst \in ScopeLists, hash_order \in Perms(Labels),
       fail \in {{}} \cup {{i} : i \in {j \in Ids : remote[j] # Absent}} :
        update_database_scoped(label_lst, fail, hash_order)

NextScoped == UpdateDatabaseScoped

SpecScoped == InitMirror /\ [][NextScoped]_vars

----------------------------------------------------------------------------
(* Properties of the reconciliation *)

\* A step that is one update_database run.
RunStep == runs' = runs + 1
RemoteIdSet == Range(search_email(RemoteListing(remote)))
LocalIdSet == Range(list_email_ids(email_content))
Disjoint3(a, b, c) == (a \cap b = {}) /\ (a \cap c = {}) /\ (b \cap c = {})

\* C1: in every run, the three lists get_labels_to_update returns (new,
\* changed, gone) are pairwise disjoint and together hold exactly the ids of
\* the remote listing and of the rows of email_content before the run.
C1_DiffPartition ==
    [][RunStep =>
        /\ Disjoint3(Range(new_messages_lst'), Range(message_label_updates_lst'),
                     Range(deleted_messages_lst'))
        /\ Range(new_messages_lst') \cup Range(message_label_updates_lst')
              \cup Range(deleted_messages_lst') = RemoteIdSet \cup LocalIdSet]_vars

C1_Witness ==
    /\ status = "done"
    /\ new_messages_lst # <<>>
    /\ message_label_updates_lst # <<>>
    /\ deleted_messages_lst # <<>>

\* The scenario: the store mirrors {2, 4} with item 2 under INBOX and SPAM,
\* the remote side lists 1, 2, 3 on the pages <<1, 2>> and <<3>>, and item 2
\* carries INBOX alone.
ScenarioBefore ==
    /\ Store = MirrorStore
    /\ {i \in Ids : remote[i] # Absent} = {1, 2, 3}
    /\ remote[2] = <<"INBOX">>
    /\ LET listing == RemoteListing(remote)
           first == _get_messages_page(listing, <<>>)
           then == _get_messages_page(listing, first.nextPageToken)
       IN /\ _get_message_ids(first.messages) = <<1, 2>>
          /\ first.nextPageToken # <<>>
          /\ _get_message_ids(then.messages) = <<3>>
          /\ then.nextPageToken = <<>>

RowsOf(content, id) == SelectSeq(content, LAMBDA r : r.email_id = id)

\* C2: one full run on the scenario computes new = 1, 3, changed = 2,
\* gone = 4, removes the SPAM row of item 2 and adds none, marks item 4
\* deleted and inserts items 1 and 3.
C2_Scenario ==
    [][(ScenarioBefore /\ RunStep /\ ~quick' /\ status' = "done") =>
        /\ new_messages_lst' = <<1, 3>>
        /\ message_label_updates_lst' = <<2>>
        /\ deleted_messages_lst' = <<4>>
        /\ label_deltas' = <<[message_id |-> 2, labels_to_add |-> {},
                              labels_to_remove |-> {"SPAM"}]>>
        /\ StoredLabels(labels', 2) = <<"INBOX">>
        /\ RowsOf(email_content', 4) = <<[email_id |-> 4, email_deleted |-> TRUE]>>
        /\ RowsOf(email_content', 2) = <<[email_id |-> 2, email_deleted |-> FALSE]>>
        /\ \A i \in {1, 3} :
              /\ RowsOf(email_content', i) = <<[email_id |-> i, email_deleted |-> FALSE]>>
              /\ StoredLabels(labels', i) = remote[i]
        /\ StoredLabels(labels', 4) = StoredLabels(labels, 4)]_vars

C2_Witness ==
    /\ runs = 1 /\ status = "done" /\ ~quick
    /\ {i \in Ids : remote[i] # Absent} = {1, 2, 3} /\ remote[2] = <<"INBOX">>
    /\ new_messages_lst = <<1, 3>>
    /\ deleted_messages_lst = <<4>>
    /\ label_deltas # <<>>

\* C3: after a full run that completed, the remote side unchanged since, the
\* label rows stored for every listed id are the id's remote labels, and
\* every stored row whose id is not listed is flagged deleted.
C3_MirrorConsistent ==
    (status = "done" /\ ~quick /\ ~remote_changed) =>
        /\ \A id \in RemoteIdSet :
              Range(StoredLabels(labels, id)) = Range(remote[id])
        /\ \A k \in DOMAIN email_content :
              email_content[k].email_id \notin RemoteIdSet
                  => email_content[k].email_deleted

C3_Witness ==
    /\ status = "done" /\ ~quick /\ ~remote_changed
    /\ new_messages_lst # <<>>
    /\ deleted_messages_lst # <<>>
    /\ \E k \in DOMAIN label_deltas :
          label_deltas[k].labels_to_remove # {}

\* C4: a full run that directly follows a completed full run, the remote side
\* unchanged in between, computes an empty new list, an empty gone list and
\* empty add and remove sets for every item.
C4_SecondRunEmpty ==
    (second /\ status = "done" /\ ~quick) =>
        /\ new_messages_lst = <<>>
        /\ deleted_messages_lst = <<>>
        /\ \A k \in DOMAIN label_deltas :
              label_deltas[k].labels_to_add = {} /\ label_deltas[k].labels_to_remove = {}

\* C5: no step removes a row of email_content, and after a full run that
\* completed every stored id the remote side no longer lists still has its
\* rows, all flagged deleted, is left out of get_all_emails(False) and is
\* returned by get_all_emails(True).
C5_TombstoneNeverDelete ==
    [][/\ \A k \in DOMAIN email_content :
              /\ k \in DOMAIN email_content'
              /\ email_content'[k].email_id = email_content[k].email_id
       /\ (RunStep /\ ~quick' /\ status' = "done") =>
              \A id \in LocalIdSet \ RemoteIdSet :
                  /\ RowsOf(email_content', id) # <<>>
                  /\ \A k \in DOMAIN email_content' :
                        email_content'[k].email_id = id => email_content'[k].email_deleted
                  /\ id \notin Range(get_all_emails(email_content', FALSE))
                  /\ id \in Range(get_all_emails(email_content', TRUE))]_vars

C5_Witness ==
    /\ changes = 1 /\ status = "done" /\ ~quick /\ ~remote_changed
    /\ \E k \in DOMAIN email_content :
          /\ email_content[k].email_deleted
          /\ remote[email_content[k].email_id] = Absent
    /\ \E k \in DOMAIN email_content : ~email_content[k].email_deleted

\* C6: a quick run fetches no labels and leaves every row of email_content
\* and the label rows of every id stored before the run as they were.
C6_QuickFrame ==
    [][(RunStep /\ quick') =>
        /\ \A k \in DOMAIN email_content :
              k \in DOMAIN email_content' /\ email_content'[k] = email_content[k]
        /\ \A id \in LocalIdSet : StoredLabels(labels', id) = StoredLabels(labels, id)
        /\ fetched_metadata' = <<>>
        /\ label_deltas' = <<>>]_vars

C6_Witness ==
    /\ quick /\ status = "done" /\ runs = 1
    /\ new_messages_lst # <<>>
    /\ \E k \in DOMAIN email_content :
          /\ email_content[k].email_id \notin RemoteIdSet
          /\ ~email_content[k].email_deleted
    /\ \E id \in RemoteIdSet \cap Range(message_label_updates_lst) :
          Range(StoredLabels(labels, id)) # Range(remote[id])

\* C7: when the detail fetch of one item raises during a run, every other
\* item of the new and changed lists is still fetched and written, and the
\* rows of the failed item are as before the run.
C7_PartialFailureIsolation ==
    [][(RunStep /\ status' = "error") =>
        /\ \A id \in Range(message_label_updates_lst') \ failed' :
              /\ id \in Range(fetched_metadata')
              /\ Range(StoredLabels(labels', id)) = Range(remote[id])
        /\ \A id \in Range(new_messages_lst') \ failed' :
              /\ id \in Range(fetched_full')
              /\ RowsOf(email_content', id) # <<>>
        /\ \A id \in failed' :
              /\ RowsOf(email_content', id) = RowsOf(email_content, id)
              /\ StoredLabels(labels', id) = StoredLabels(labels, id)]_vars

----------------------------------------------------------------------------
(* Properties of the rule matcher *)

Matched == label_add \notin {"(idle)", "(pending)"}
RuleFields == {"from", "to", "subject"}
HeaderFor(key) ==
    IF key = "from" THEN get_from(message)
    ELSE IF key = "to" THEN get_to(message) ELSE get_subject(message)

\* pattern occurs in text as a run of consecutive characters, case kept
Contains(pattern, text) ==
    \E i \in 1..(Len(text) + 1), j \in 0..Len(text) : SubSeq(text, i, j) = pattern

\* at least one populated field of the rule occurs in its header, which is present
RuleMatches(filter_dict) ==
    \E key \in RuleFields :
        /\ HasKey(filter_dict, key)
        /\ HeaderFor(key) # None
        /\ Contains(filter_dict[key], HeaderFor(key))

FirstMatching ==
    {k \in DOMAIN filter_dict_lst :
        /\ RuleMatches(filter_dict_lst[k])
        /\ \A j \in 1..(k - 1) : ~RuleMatches(filter_dict_lst[j])}

\* C8: the matcher returns the outcome of the label lookup of the first rule,
\* in list order, that matches (its label id when the catalog has the label),
\* whatever the rules after it are, and None when no rule matches.
C8_RulePrecedence ==
    Matched =>
        /\ \A k \in FirstMatching : label_add = LookupLabel(filter_dict_lst[k])
        /\ \A k \in FirstMatching :
              filter_dict_lst[k].label \in DOMAIN _label_dict
                  => label_add = _label_dict[filter_dict_lst[k].label]
        /\ FirstMatching = {} => label_add = "(None)"

C8_Witness ==
    /\ filter_dict_lst =
          <<[from |-> StrA, to |-> NoPattern, subject |-> NoPattern, label |-> "L1"],
            [from |-> NoPattern, to |-> NoPattern, subject |-> StrA, label |-> "L2"]>>
    /\ get_from(message) = StrBa
    /\ get_subject(message) = StrUpperA
    /\ label_add = "Label_1"

\* C9: a single rule yields a result other than None exactly when at least
\* one of its populated fields from, to, subject occurs, case kept, in the
\* corresponding header and that header is present; a rule with none of the
\* three fields never matches.
C9_FieldsAreOr ==
    (Matched /\ Len(filter_dict_lst) = 1) =>
        /\ (label_add # "(None)") <=> RuleMatches(filter_dict_lst[1])
        /\ (\A key \in RuleFields : ~HasKey(filter_dict_lst[1], key))
              => label_add = "(None)"

C9_Witness ==
    /\ Len(filter_dict_lst) = 1
    /\ HasKey(filter_dict_lst[1], "from") /\ HasKey(filter_dict_lst[1], "to")
    /\ get_from(message) = StrUpperA
    /\ get_to(message) = StrBa
    /\ label_add = "Label_1"

SomeHeaderAbsent == \E key \in RuleFields : HeaderFor(key) = None
PopulatedFieldsAllAbsent ==
    \A k \in DOMAIN filter_dict_lst : \A key \in RuleFields :
        HasKey(filter_dict_lst[k], key) => HeaderFor(key) = None

\* C10 as stated: on a message with an absent header the matcher raises no
\* error at all, and rule fields whose header is absent do not match.
C10_NullSafeNoError ==
    (Matched /\ SomeHeaderAbsent) =>
        /\ label_add \notin {"(TypeError)", "(KeyError)"}
        /\ PopulatedFieldsAllAbsent => label_add = "(None)"

\* C10 amended: on a message with an absent header the matcher raises no
\* error on account of that header; rule fields whose header is absent do not
\* match; the one error left is the KeyError of the label lookup of the first
\* rule that matches on a present header.
C10_NullSafe ==
    (Matched /\ SomeHeaderAbsent) =>
        /\ label_add # "(TypeError)"
        /\ PopulatedFieldsAllAbsent => label_add = "(None)"
        /\ label_add = "(KeyError)" =>
              \E k \in FirstMatching :
                  \/ ~HasKey(filter_dict_lst[k], "label")
                  \/ filter_dict_lst[k].label \notin DOMAIN _label_dict

C10_Witness ==
    /\ get_to(message) = None
    /\ filter_dict_lst =
          <<[from |-> NoPattern, to |-> StrA, subject |-> NoPattern, label |-> "L1"]>>
    /\ label_add = "(None)"

----------------------------------------------------------------------------
(* Properties of the Label Mutation Driver *)

\* the requests on the log that address one message
RequestsFor(reqs, id) == SelectSeq(reqs, LAMBDA r : r.id = id)
Present(mailbox) == {i \in Ids : mailbox[i] # Absent}
Carrying(mailbox, label_id) == {i \in Present(mailbox) : label_id \in Range(mailbox[i])}
Called(name) == call = NoCall /\ call'.name = name

\* C11: filter_label_by_sender issues no request for a listed message on
\* which the matcher returns None (the empty rule list included) and none for
\* a message that is not listed; when it returns, every listed message on
\* which the matcher returns a label has exactly one request, removing the
\* source label id and adding the matched label id.
C11_UnmatchedUnchanged ==
    [][(Called("filter_label_by_sender") /\ call'.label \in DOMAIN _label_dict) =>
        LET src == _label_dict[call'.label]
            answer(id) == _filter_message_by_sender(call'.filter_dict_lst, mail_headers[id])
        IN /\ \A id \in Ids \ Carrying(remote, src) : RequestsFor(requests', id) = <<>>
           /\ \A id \in Carrying(remote, src) :
                 /\ answer(id) = "(None)" =>
                       /\ RequestsFor(requests', id) = <<>>
                       /\ remote'[id] = remote[id]
                 /\ (raised' = "(none)" /\ answer(id) # "(None)") =>
                       RequestsFor(requests', id) =
                           <<[id |-> id,
                              body |-> [removeLabelIds |-> <<src>>,
                                        addLabelIds |-> <<answer(id)>>]]>>
           /\ call'.filter_dict_lst = <<>> => requests' = <<>>]_vars

C11_Witness ==
    /\ call.name = "filter_label_by_sender" /\ call.label = "L1"
    /\ raised = "(none)"
    /\ Len(requests) = 1
    /\ requests[1].body.addLabelIds = <<"Label_2">>
    /\ \E id \in Present(remote) \ {requests[1].id} : "Label_1" \in Range(remote[id])

\* C12: _modify_message_labels with an empty remove list and an empty add
\* list issues no request and leaves the mailbox as it is.
C12_NoOpMutation ==
    [][(Called("_modify_message_labels")
            /\ call'.label_id_remove_lst = <<>> /\ call'.label_id_add_lst = <<>>) =>
        (requests' = <<>> /\ remote' = remote)]_vars

C12_Witness ==
    /\ call.name = "_modify_message_labels"
    /\ call.label_id_remove_lst = <<>> /\ call.label_id_add_lst = <<>>
    /\ requests = <<>>

\* C13: one call of _modify_message_labels issues at most one request; when
\* both lists are non-empty the one request carries both; an empty list has no
\* key in the request.
C13_SingleRequest ==
    call.name = "_modify_message_labels" =>
        /\ Len(requests) <= 1
        /\ (call.label_id_remove_lst # <<>> /\ call.label_id_add_lst # <<>>) =>
              requests = <<[id |-> call.message_id,
                            body |-> [removeLabelIds |-> call.label_id_remove_lst,
                                      addLabelIds |-> call.label_id_add_lst]]>>
        /\ \A k \in DOMAIN requests :
              /\ requests[k].id = call.message_id
              /\ (call.label_id_remove_lst = <<>>)
                    <=> (requests[k].body.removeLabelIds = Unset)
              /\ (call.label_id_add_lst = <<>>)
                    <=> (requests[k].body.addLabelIds = Unset)
              /\ call.label_id_remove_lst # <<>> =>
                    requests[k].body.removeLabelIds = call.label_id_remove_lst
              /\ call.label_id_add_lst # <<>> =>
                    requests[k].body.addLabelIds = call.label_id_add_lst

C13_Witness ==
    /\ call.name = "_modify_message_labels"
    /\ call.label_id_remove_lst = <<"Label_1">> /\ call.label_id_add_lst = <<"Label_2">>
    /\ Len(requests) = 1
    /\ remote[call.message_id] = <<"Label_2">>

\* C14: _modify_message_labels issues no request when every label of the add
\* list is on the message already and no label of the remove list is on it.
C14_SkipWhenTargetHolds ==
    [][(Called("_modify_message_labels")
            /\ Range(call'.label_id_add_lst) \subseteq Range(remote[call'.message_id])
            /\ Range(call'.label_id_remove_lst) \cap Range(remote[call'.message_id]) = {})
        => requests' = <<>>]_vars

\* C15: remove_labels_from_emails on labels of the catalog returns without an
\* error; its requests are remove-only, exactly one per input label and
\* message carrying that label, pages after the first included, and none
\* else; afterwards no message carries an input label.
C15_BulkStrip ==
    [][(Called("remove_labels_from_emails")
            /\ Range(call'.label_lst) \subseteq DOMAIN _label_dict) =>
        LET label_ids == {_label_dict[n] : n \in Range(call'.label_lst)}
            strip(id, l) == [id |-> id,
                             body |-> [removeLabelIds |-> <<l>>, addLabelIds |-> Unset]]
        IN /\ raised' = "(none)"
           /\ \A k \in DOMAIN requests' :
                 \E l \in label_ids : \E id \in Carrying(remote, l) :
                     requests'[k] = strip(id, l)
           /\ \A l \in label_ids : \A id \in Carrying(remote, l) :
                 Cardinality({k \in DOMAIN requests' : requests'[k] = strip(id, l)}) = 1
           /\ \A l \in label_ids : Carrying(remote', l) = {}]_vars

C15_Witness ==
    /\ call.name = "remove_labels_from_emails"
    /\ call.label_lst = <<"L1", "L2">>
    /\ raised = "(none)"
    /\ Len(requests) = 3
    /\ Len(requests) > PageSize
    /\ \A k \in DOMAIN requests : requests[k].body.removeLabelIds = <<"Label_1">>

\* C17: load_json_tasks on a task dictionary with a task kind it does not
\* know raises and has issued no request, wherever the unknown kind stands.
C17_UnknownTaskFailsFast ==
    (call.name = "load_json_tasks"
        /\ \E k \in DOMAIN call.task_dict :
              call.task_dict[k].task \notin
                  {"remove_labels_from_emails", "filter_label_by_sender", "database"})
    => (raised = "(ValueError)" /\ requests = <<>>)

\* C18: filter_label_by_sender on a rule list holding a rule without a label
\* field, or with a label the catalog does not have, raises and has issued no
\* request, whatever messages carry the source label.
C18_BadRuleFailsFast ==
    (call.name = "filter_label_by_sender" /\ call.label \in DOMAIN _label_dict
        /\ \E k \in DOMAIN call.filter_dict_lst :
              \/ ~HasKey(call.filter_dict_lst[k], "label")
              \/ call.filter_dict_lst[k].label \notin DOMAIN _label_dict)
    => (raised # "(none)" /\ requests = <<>>)

----------------------------------------------------------------------------
(* Further properties of the reconciliation *)

\* C16: _get_messages returns the whole listing, the pages joined in page
\* order, and a run diffs the store against that whole listing: new and
\* changed ids together are the ids of every remote message, in listing
\* order, and the gone ids are the stored ids no remote message has.
C16_DrainBeforeDiff ==
    [][RunStep =>
        LET listing == RemoteListing(remote)
            first == _get_messages_page(listing, <<>>)
            then == _get_messages_page(listing, first.nextPageToken)
        IN /\ first.nextPageToken # <<>> /\ then.nextPageToken = <<>> =>
                 _get_messages(listing) = first.messages \o then.messages
           /\ first.nextPageToken = <<>> /\ first.has_messages =>
                 _get_messages(listing) = first.messages
           /\ Range(new_messages_lst') \cup Range(message_label_updates_lst')
                 = Present(remote)
           /\ Range(deleted_messages_lst') = LocalIdSet \ Present(remote)
           /\ \A id \in Present(remote) :
                 status' = "done" => RowsOf(email_content', id) # <<>>]_vars

C16_Witness ==
    /\ runs = 1 /\ status = "done" /\ quick
    /\ Len(RemoteListing(remote)) > PageSize
    /\ new_messages_lst = <<1, 3>>
    /\ RowsOf(email_content, 3) # <<>>

\* C19: a run in which the detail fetch of at most one item meets a transient
\* error does not end in an error.
C19_TransientRetried ==
    [][(RunStep /\ Cardinality(failed') <= 1) => status' # "error"]_vars

\* every remote message has exactly one row in email_content, its labels in
\* the labels table, one thread row and its address rows
RowsComplete ==
    \A id \in Present(remote) :
        /\ Len(RowsOf(email_content, id)) = 1
        /\ Range(StoredLabels(labels, id)) = Range(remote[id])
        /\ Len(RowsOf(threads, id)) = 1
        /\ Len(RowsOf(email_from, id)) = 1
        /\ Len(RowsOf(email_to, id)) = 1

\* C20: after a full run that completed, whatever run was interrupted before
\* it, the store holds every remote message with all of its rows.
C20_CrashSafe ==
    (status = "done" /\ ~quick) => RowsComplete

----------------------------------------------------------------------------
(* Properties of the header projection *)

\* the raw value holds a "<" with a ">" somewhere after it
HasBracketed(s) == \E i, j \in DOMAIN s : i < j /\ s[i] = "<" /\ s[j] = ">"
\* the text between the first such "<" and the first ">" after it
BracketedPortion(s) ==
    LET i == CHOOSE k \in DOMAIN s :
                 /\ s[k] = "<" /\ \E j \in DOMAIN s : k < j /\ s[j] = ">"
                 /\ \A m \in 1..(k - 1) : s[m] # "<"
        j == CHOOSE k \in DOMAIN s :
                 k > i /\ s[k] = ">" /\ \A m \in (i + 1)..(k - 1) : s[m] # ">"
    IN SubSeq(s, i + 1, j - 1)
Lowered(s) == \A k \in DOMAIN s : s[k] # "J"

\* C21: get_email_address returns a lower-case value: the bracketed portion
\* of a raw value that holds an angle-bracketed address, the whole raw value
\* lower-cased otherwise; applied to its own output it returns that output.
C21_AddressNormalized ==
    /\ Len(address) >= 1 =>
          /\ Lowered(address[1])
          /\ HasBracketed(email) => address[1] = lower(BracketedPortion(email))
          /\ ~HasBracketed(email) => address[1] = lower(email)
    /\ Len(address) >= 2 => address[2] = address[1]

DateAbsent(message_dict) == \A k \in DOMAIN message_dict.headers :
                                message_dict.headers[k].name # "Date"

\* C22: to_dict on a fetched message without a Date header raises no error
\* and gives a record whose date is null.
C22_DateNullSafe ==
    (item # NoItem /\ DateAbsent(detail)) =>
        (item.raised = "(none)" /\ item.date = None)

----------------------------------------------------------------------------
(* Further properties of the Local Store *)

\* C23: a full run that completed leaves, of the label rows of the ids
\* stored before it, every row in place except the rows of a changed item
\* whose label the remote side no longer has, and adds exactly one row per
\* changed item and label the remote side has and the store had not: rows of
\* labels in both sets and rows of other items are not rewritten, the stored
\* label set of a changed item ends equal to the remote one, and an item
\* whose two sets are equal, in whatever order, has its rows untouched.
C23_DeltaOnly ==
    [][(RunStep /\ ~quick' /\ status' = "done") =>
        LET upd == Range(message_label_updates_lst')
            kept == SelectSeq(labels, LAMBDA r :
                        ~(r.email_id \in upd
                            /\ r.label_id \notin Range(remote[r.email_id])))
            after == SelectSeq(labels', LAMBDA r : r.email_id \in LocalIdSet)
            wanted == UNION {{[email_id |-> id, label_id |-> l] :
                                 l \in Range(remote[id]) \ Range(StoredLabels(labels, id))} :
                             id \in upd}
        IN /\ Len(after) = Len(kept) + Cardinality(wanted)
           /\ SubSeq(after, 1, Len(kept)) = kept
           /\ {after[k] : k \in (Len(kept) + 1)..Len(after)} = wanted
           /\ \A id \in upd : Range(StoredLabels(labels', id)) = Range(remote[id])
           /\ \A id \in LocalIdSet :
                 (id \notin upd \/ Range(StoredLabels(labels, id)) = Range(remote[id]))
                     => StoredLabels(labels', id) = StoredLabels(labels, id)]_vars

C23_Witness ==
    /\ status = "done" /\ ~quick /\ changes = 1
    /\ \E k \in DOMAIN label_deltas :
          /\ label_deltas[k].labels_to_add # {}
          /\ Len(StoredLabels(labels, label_deltas[k].message_id)) = 2

\* C24: no step leaves the committed label rows of a stored item with only
\* a part of its delta: after every step the stored label set of the item is
\* the one before the step or the remote one.
C24_DeltaTransactional ==
    [][\A id \in LocalIdSet :
          \/ Range(StoredLabels(labels', id)) = Range(StoredLabels(labels, id))
          \/ /\ remote[id] # Absent
             /\ Range(StoredLabels(labels', id)) = Range(remote[id])]_vars

\* the number of Item rows of one id
ItemRows(id) == Cardinality({k \in DOMAIN email_content : email_content[k].email_id = id})

Referenced ==
    {r.email_id : r \in Range(labels) \cup Range(threads)
                        \cup Range(email_to) \cup Range(email_from)}

\* C25: every item_id that occurs in the labels, threads, email_to or
\* email_from table has exactly one row in email_content.
C25_OneItemRow == \A id \in Referenced : ItemRows(id) = 1

\* C27: after a complete full run an Item row is flagged deleted exactly
\* when its id is absent from the remote listing of that run.
C27_DeletedIffAbsent ==
    (runs > 0 /\ status = "done" /\ ~quick) =>
        \A k \in DOMAIN email_content :
            email_content[k].email_deleted = (remote[email_content[k].email_id] = Absent)

\* C28: a label-scoped run flags no stored item that still exists on the
\* remote side.
C28_ScopedKeepsExisting ==
    \A k \in DOMAIN email_content :
        email_content[k].email_deleted => remote[email_content[k].email_id] = Absent

-----------------------------------------------------------------------------
(* Properties of the page draining *)

\* C26: in every implementation of _get_messages each page request after
\* the first carries the token the preceding page returned.
C26_TokenChained ==
    \A k \in 2..Len(paging.sent) : paging.sent[k] = paging.returned[k - 1]

-----------------------------------------------------------------------------
(* Further properties of the label operations *)

LabelIdsOf(lst) == IF lst = Unset THEN {} ELSE Range(lst)

\* C29: no request of filter_label_by_sender names one label id in both its
\* addLabelIds and its removeLabelIds.
C29_AddRemoveDisjoint ==
    call.name = "filter_label_by_sender" =>
        \A k \in DOMAIN requests :
            LabelIdsOf(requests[k].body.addLabelIds)
                \cap LabelIdsOf(requests[k].body.removeLabelIds) = {}

\* C30: on every rule list and message the three _filter_message_by_sender
\* give the same answer: the same label id, None, or the same exception.
C30_MatchersAgree ==
    answers # NoAnswers =>
        /\ answers.filter_py = answers.gmail_py
        /\ answers.gmail_py = answers.google_mail_py

====
